---------------------------- MODULE Spec2Model ----------------------------
(***************************************************************************)
(* Hazon screenplay tool: the Fountain decoder/encoder/validator           *)
(* (src/main/lib/fountain.ts), the page estimator (src/lib/pageCount.ts)   *)
(* and the editor's page navigator weights (ScriptEditor.tsx).             *)
(*                                                                         *)
(* A string is a sequence of one-character strings; a text blob is such a  *)
(* sequence that may hold "\n" and "\r".                                   *)
(***************************************************************************)
EXTENDS Integers, Sequences, FiniteSets, TLC

VARIABLES
  pc,                 \* position of the running function
  rawLines,           \* parseFountain / validateFountain: text.split(/\r?\n/)
  i,                  \* parseFountain / validateFountain: loop index (0-based)
  inTitlePage,        \* parseFountain locals
  inDialogue,
  lastCharacterLine,
  metadata,           \* parseFountain: FountainMetadata, a function key -> value
  lines,              \* the Line sequence a function builds or reads
  srcIdx,             \* history: the 1-based raw line each parsed Line came from
  nextId,             \* randomUUID(): the next fresh id
  script,             \* parseFountain result / exportToFountain argument
  output,             \* exportToFountain: output[]
  lastType,           \* exportToFountain: lastType
  outIdx,             \* history: the 1-based place in output[] each Line was written to
  exported,           \* exportToFountain result
  hasContent,         \* validateFountain local
  validation,         \* validateFountain result
  weightedLines,      \* calculatePageStats accumulator, in tenths of a line
  wordCount,          \* calculatePageStats accumulator
  stats,              \* calculatePageStats result
  navWeighted,        \* ScriptEditor totalPages accumulator, in tenths of a line
  totalPages,         \* ScriptEditor totalPages
  pageBreaks,         \* ScriptEditor pageBreaks: 0-based line indices
  sceneList,          \* ScriptEditor sceneList
  scrollTarget,       \* the line index scrollToPage handed to scrollToLine, or NoTarget
  timers,             \* the pending setTimeout callbacks of debouncedSave
  saveTimeoutRef,     \* ScriptEditor saveTimeoutRef.current
  saved,              \* the argument of the last onSave call
  edits,              \* history: how many updateLines calls were made
  lastOp,             \* history: the last editor operation
  prevLines,          \* history: the editor's lines before the last operation
  db                  \* db.data: the stored scripts and characters

vars == <<pc, rawLines, i, inTitlePage, inDialogue, lastCharacterLine, metadata,
          lines, srcIdx, nextId, script, output, lastType, outIdx, exported,
          hasContent, validation, weightedLines, wordCount, stats, navWeighted,
          totalPages, pageBreaks, sceneList, scrollTarget, timers, saveTimeoutRef,
          saved, edits, lastOp, prevLines, db>>

\* the variables of exportToFountain, validateFountain and the page estimators
exportVars == <<output, lastType, outIdx, exported>>
validateVars == <<hasContent, validation>>
statsVars == <<weightedLines, wordCount, stats, navWeighted, totalPages>>
\* the editor's page navigator, its debounced save, and the record store
navVars == <<pageBreaks, sceneList, scrollTarget>>
editorVars == <<timers, saveTimeoutRef, saved, edits, lastOp, prevLines>>
uiVars == <<navVars, editorVars, db>>
\* the locals of parseFountain
parseVars == <<inTitlePage, inDialogue, lastCharacterLine, metadata, srcIdx, nextId>>

-----------------------------------------------------------------------------
(* Bounds of the model *)

\* lines of an input text handed to parseFountain / validateFountain
MaxRawLines == 3

\* Lines of a script handed to exportToFountain or to the page estimators
MaxScriptLines == 2

\* characters of the longest Line text handed to the page estimators
LongTextLen == 1750

-----------------------------------------------------------------------------
(* Characters *)

UpperSeq == <<"A","B","C","D","E","F","G","H","I","J","K","L","M",
              "N","O","P","Q","R","S","T","U","V","W","X","Y","Z">>
LowerSeq == <<"a","b","c","d","e","f","g","h","i","j","k","l","m",
              "n","o","p","q","r","s","t","u","v","w","x","y","z">>

Upper == {UpperSeq[k] : k \in 1..26}
Lower == {LowerSeq[k] : k \in 1..26}
Digit == {"0","1","2","3","4","5","6","7","8","9"}

\* what \s and String.prototype.trim treat as white space
WhiteSpace == {" ", "\t", "\n", "\r", "\f"}

\* what . does not match in a regular expression without the s flag
LineTerminator == {"\n", "\r"}

IsSpace(c) == c \in WhiteSpace
DotChar(c) == c \notin LineTerminator

ToUpperChar(c) ==
  IF c \in Lower THEN UpperSeq[CHOOSE k \in 1..26 : LowerSeq[k] = c] ELSE c

ToLowerChar(c) ==
  IF c \in Upper THEN LowerSeq[CHOOSE k \in 1..26 : UpperSeq[k] = c] ELSE c

\* String.prototype.toUpperCase / toLowerCase
toUpperCase(s) == [k \in 1..Len(s) |-> ToUpperChar(s[k])]
toLowerCase(s) == [k \in 1..Len(s) |-> ToLowerChar(s[k])]

\* s[a..b] is all white space (true of an empty range)
AllSpace(s, a, b) == \A k \in a..b : IsSpace(s[k])
\* s[a..b] holds no line terminator
AllDot(s, a, b) == \A k \in a..b : DotChar(s[k])

\* String.prototype.trim
trim(s) ==
  IF AllSpace(s, 1, Len(s)) THEN <<>>
  ELSE LET a == CHOOSE k \in 1..Len(s) : ~IsSpace(s[k]) /\ AllSpace(s, 1, k-1)
           b == CHOOSE k \in 1..Len(s) : ~IsSpace(s[k]) /\ AllSpace(s, k+1, Len(s))
       IN  SubSeq(s, a, b)

\* String.prototype.startsWith / endsWith for a one-character argument
startsWith(s, c) == Len(s) >= 1 /\ s[1] = c
endsWith(s, c) == Len(s) >= 1 /\ s[Len(s)] = c

\* the literal p matches s at position at, ignoring case (the i flag)
MatchAtCI(s, at, p) ==
  /\ at + Len(p) - 1 <= Len(s)
  /\ \A k \in 1..Len(p) : ToUpperChar(s[at + k - 1]) = ToUpperChar(p[k])

\* String.prototype.split(/\r?\n/)
RECURSIVE SplitFrom(_, _, _)
SplitFrom(t, k, cur) ==
  IF k > Len(t) THEN <<cur>>
  ELSE IF t[k] = "\n"
       THEN <<IF endsWith(cur, "\r") THEN SubSeq(cur, 1, Len(cur) - 1) ELSE cur>>
            \o SplitFrom(t, k + 1, <<>>)
       ELSE SplitFrom(t, k + 1, Append(cur, t[k]))

split(t) == SplitFrom(t, 1, <<>>)

\* Array.prototype.join('\n')
RECURSIVE join(_)
join(ls) ==
  IF ls = <<>> THEN <<>>
  ELSE IF Len(ls) = 1 THEN ls[1]
  ELSE ls[1] \o <<"\n">> \o join(Tail(ls))

-----------------------------------------------------------------------------
(* PATTERNS of fountain.ts *)

ScenePrefixes ==
  { <<"I","N","T">>, <<"E","X","T">>, <<"E","S","T">>,
    <<"I","N","T",".","/","E","X","T">>, <<"I","/","E">> }

\* /^(\.(?!\.)|(?:INT|EXT|EST|INT\.\/EXT|I\/E)[.\s])/i
SCENE_HEADING(s) ==
  \/ Len(s) >= 1 /\ s[1] = "." /\ (Len(s) = 1 \/ s[2] # ".")
  \/ \E p \in ScenePrefixes :
        /\ Len(s) > Len(p)
        /\ MatchAtCI(s, 1, p)
        /\ (s[Len(p) + 1] = "." \/ IsSpace(s[Len(p) + 1]))

\* /^@|^[A-Z][A-Z0-9 ]*(?:\s*\(.*\))?$/
CHARACTER(s) ==
  \/ startsWith(s, "@")
  \/ /\ Len(s) >= 1
     /\ s[1] \in Upper
     /\ \E k \in 1..Len(s) :
          /\ \A j \in 2..k : s[j] \in Upper \cup Digit \cup {" "}
          /\ \/ k = Len(s)
             \/ \E m \in (k+1)..(Len(s)-1) :
                  /\ AllSpace(s, k + 1, m - 1)
                  /\ s[m] = "("
                  /\ s[Len(s)] = ")"
                  /\ AllDot(s, m + 1, Len(s) - 1)

\* /^\s*\(.*\)\s*$/
PARENTHETICAL(s) ==
  \E a \in 1..Len(s) : \E b \in (a+1)..Len(s) :
     /\ AllSpace(s, 1, a - 1)
     /\ s[a] = "("
     /\ AllDot(s, a + 1, b - 1)
     /\ s[b] = ")"
     /\ AllSpace(s, b + 1, Len(s))

TransitionPhrases ==
  { <<"F","A","D","E"," ","O","U","T">>,
    <<"C","U","T"," ","T","O">>,
    <<"D","I","S","S","O","L","V","E"," ","T","O">>,
    <<"S","M","A","S","H"," ","C","U","T"," ","T","O">>,
    <<"M","A","T","C","H"," ","C","U","T"," ","T","O">> }

\* /^>|(?:FADE OUT|CUT TO|DISSOLVE TO|SMASH CUT TO|MATCH CUT TO)[:.]?\s*$/i
TRANSITION(s) ==
  \/ startsWith(s, ">")
  \/ \E at \in 1..Len(s) : \E p \in TransitionPhrases :
        /\ MatchAtCI(s, at, p)
        /\ LET r == at + Len(p)
           IN  \/ AllSpace(s, r, Len(s))
               \/ r <= Len(s) /\ s[r] \in {":", "."} /\ AllSpace(s, r + 1, Len(s))

\* /^!/  /^\./  /^@/  /^>/
FORCED_ACTION(s) == startsWith(s, "!")
FORCED_SCENE(s) == startsWith(s, ".")
FORCED_CHARACTER(s) == startsWith(s, "@")
FORCED_TRANSITION(s) == startsWith(s, ">")

\* /^\s*$/
BLANK(s) == AllSpace(s, 1, Len(s))

\* the position of the ':' that /^([A-Za-z\s]+):\s*(.*)$/ matches, 0 for no match
TitleColon(s) ==
  IF \E c \in 2..Len(s) :
        /\ s[c] = ":"
        /\ \A j \in 1..(c-1) : s[j] \in Upper \cup Lower \cup WhiteSpace
        /\ \E v \in c..Len(s) : AllSpace(s, c + 1, v) /\ AllDot(s, v + 1, Len(s))
  THEN CHOOSE c \in 2..Len(s) :
        s[c] = ":" /\ \A j \in 1..(c-1) : s[j] # ":"
  ELSE 0

\* /^([A-Za-z\s]+):\s*(.*)$/ and its two groups
TITLE_PAGE(s) == TitleColon(s) # 0
TitleGroup1(s) == SubSeq(s, 1, TitleColon(s) - 1)
TitleGroup2(s) ==
  LET c == TitleColon(s)
      v == CHOOSE v \in c..Len(s) :
             AllSpace(s, c + 1, v) /\ (v = Len(s) \/ ~IsSpace(s[v + 1]))
  IN  SubSeq(s, v + 1, Len(s))

\* s.replace(/#([^#]+)#$/, '')
ReplaceSceneNumber(s) ==
  IF \E a \in 1..(Len(s) - 2) :
        s[a] = "#" /\ s[Len(s)] = "#" /\ \A j \in (a+1)..(Len(s)-1) : s[j] # "#"
  THEN LET a == CHOOSE a \in 1..(Len(s) - 2) :
                  s[a] = "#" /\ \A j \in (a+1)..(Len(s)-1) : s[j] # "#"
       IN  SubSeq(s, 1, a - 1)
  ELSE s

-----------------------------------------------------------------------------
(* Input lines the model draws texts from: one or more per rule of the decoder *)

L_blank == <<>>
L_cue == <<"J","O">>
L_cueExt == <<"J","O"," ","(","V",".","O",".",")">>
L_plain == <<"H","i">>
L_paren == <<"(","x",")">>
L_dotScene == <<" ","."," ","Y","d","\r">>
L_ellipsis == <<".",".","s","o">>
L_sceneNum == <<"e","x","t"," ","b"," ","#","1","#">>
L_intExt == <<"I","N","T","/","E","X","T","."," ","A">>
L_cutTo == <<"C","U","T"," ","T","O",":">>
L_endsCutTo == <<"W","e"," ","c","u","t"," ","t","o",":">>
L_fadeIn == <<"F","A","D","E"," ","I","N",":">>
L_title == <<"T","i","t","l","e",":"," ","T">>
L_titleEmpty == <<"T","I","T","L","E",":">>
L_author == <<"A","u","t","h","o","r","s",":"," ","A","l">>
L_forcedCue == <<"@","b","o">>
L_forcedTrans == <<">","X">>
L_forcedAction == <<"!","J","O">>

RawLineCorpus ==
  { L_blank, L_cue, L_cueExt, L_plain, L_paren,
    L_dotScene, L_ellipsis, L_sceneNum, L_intExt, L_cutTo,
    L_endsCutTo, L_fadeIn, L_title, L_titleEmpty, L_author,
    L_forcedCue, L_forcedTrans, L_forcedAction }

-----------------------------------------------------------------------------
(* Initial values of what a function does not use *)

\* an optional string field: absent, or holding a value
None == <<>>
Some(v) == <<v>>

NoScript == [title |-> <<>>, description |-> <<>>, author |-> <<>>,
             logline |-> <<>>, lines |-> <<>>]
NoValidation == [valid |-> FALSE, errors |-> <<>>]
\* PageStats; pageCount is held in tenths of a page (it has one decimal place)
NoStats == [pageCount |-> 0, estimatedMinutes |-> 0, lineCount |-> 0, wordCount |-> 0]

\* LineType of shared/types, in the order of the editor's LINE_TYPES
LINE_TYPES == <<"scene", "action", "character", "parenthetical", "dialogue", "transition">>
LineTypes == {LINE_TYPES[k] : k \in 1..Len(LINE_TYPES)}

\* a function that is not running: its variables at their initial values
IdleParse ==
  /\ inTitlePage = TRUE /\ inDialogue = FALSE /\ lastCharacterLine = FALSE
  /\ metadata = <<>> /\ srcIdx = <<>> /\ nextId = 1
IdleExport ==
  output = <<>> /\ lastType = "null" /\ outIdx = <<>> /\ exported = <<>>
IdleValidate == hasContent = FALSE /\ validation = NoValidation
IdleStats ==
  /\ weightedLines = 0 /\ wordCount = 0 /\ stats = NoStats
  /\ navWeighted = 0 /\ totalPages = 0

\* scrollToPage returned without calling scrollToLine
NoTarget == -1
\* saveTimeoutRef.current === null; no editor operation yet; onSave not yet called
NoTimer == 0
NoOp == [op |-> "none", idx |-> 0, shift |-> FALSE]
NotSaved == [ver |-> 0, lines |-> <<>>, shown |-> TRUE]

\* the default data of the store
EmptyDb == [scripts |-> <<>>, characters |-> <<>>]

IdleUi ==
  /\ pageBreaks = <<>> /\ sceneList = <<>> /\ scrollTarget = NoTarget
  /\ timers = {} /\ saveTimeoutRef = NoTimer /\ saved = NotSaved
  /\ edits = 0 /\ lastOp = NoOp /\ prevLines = <<>>
  /\ db = EmptyDb

-----------------------------------------------------------------------------
(* parseFountain *)

\* every text of at most n lines over the corpus, lines joined by "\n"
RECURSIVE TextsOf(_)
TextsOf(n) ==
  IF n <= 1 THEN RawLineCorpus
  ELSE LET shorter == TextsOf(n - 1)
       IN  shorter \cup {t \o <<"\n">> \o l : t \in shorter, l \in RawLineCorpus}

FountainTexts == TextsOf(MaxRawLines)

Untitled == <<"U","n","t","i","t","l","e","d">>

\* the switch (key) of the title page loop: the metadata field a key sets, "" for none
MetadataField(key) ==
  CASE key = <<"t","i","t","l","e">> -> "title"
    [] key = <<"a","u","t","h","o","r">> -> "author"
    [] key = <<"a","u","t","h","o","r","s">> -> "author"
    [] key = <<"c","r","e","d","i","t">> -> "credit"
    [] key = <<"d","r","a","f","t"," ","d","a","t","e">> -> "draftDate"
    [] key = <<"d","a","t","e">> -> "draftDate"
    [] key = <<"c","o","n","t","a","c","t">> -> "contact"
    [] key = <<"c","o","p","y","r","i","g","h","t">> -> "copyright"
    [] key = <<"n","o","t","e","s">> -> "notes"
    [] OTHER -> ""

\* rawLines.slice(from).find(l => !BLANK(l)) finds a line (from is 0-based)
HasNonBlankFrom(raw, from) ==
  \E k \in (from + 1)..Len(raw) : ~BLANK(raw[k])

\* rawLines.slice(from).find(l => !BLANK(l)), when it finds one
FirstNonBlankFrom(raw, from) ==
  raw[CHOOSE k \in (from + 1)..Len(raw) :
        ~BLANK(raw[k]) /\ \A j \in (from + 1)..(k - 1) : BLANK(raw[j])]

\* a blank line of the title page ends it: metadata seen and no title line ahead
BlankEndsTitlePage(raw, at, meta) ==
  /\ DOMAIN meta # {}
  /\ \/ ~HasNonBlankFrom(raw, at + 1)
     \/ ~TITLE_PAGE(FirstNonBlankFrom(raw, at + 1))

\* SetMetadata comparing the key without lower-casing it
SetMetadata_CaseSensitive(meta, s) ==
  LET key   == trim(TitleGroup1(s))
      value == trim(TitleGroup2(s))
      field == MetadataField(key)
  IN  IF field = "" THEN meta ELSE (field :> value) @@ meta

\* metadata after the title page line s
SetMetadata(meta, s) ==
  LET key   == trim(toLowerCase(TitleGroup1(s)))
      value == trim(TitleGroup2(s))
      field == MetadataField(key)
  IN  IF field = "" THEN meta ELSE (field :> value) @@ meta

\* ClassifyType without the look-ahead of the character rule
ClassifyType_NoLookahead(s, inDlg, lastChar, hasNext) ==
  IF FORCED_SCENE(s) THEN "scene"
  ELSE IF FORCED_CHARACTER(s) THEN "character"
  ELSE IF FORCED_TRANSITION(s) THEN "transition"
  ELSE IF FORCED_ACTION(s) THEN "action"
  ELSE IF SCENE_HEADING(s) THEN "scene"
  ELSE IF lastChar /\ PARENTHETICAL(s) THEN "parenthetical"
  ELSE IF inDlg /\ ~CHARACTER(s) THEN "dialogue"
  ELSE IF TRANSITION(s) THEN "transition"
  ELSE IF CHARACTER(s) /\ ~inDlg THEN "character"
  ELSE "action"

\* ClassifyType testing inDialogue where the parenthetical rule tests
\* lastCharacterLine
ClassifyType_ParenInDialogue(s, inDlg, lastChar, hasNext) ==
  IF FORCED_SCENE(s) THEN "scene"
  ELSE IF FORCED_CHARACTER(s) THEN "character"
  ELSE IF FORCED_TRANSITION(s) THEN "transition"
  ELSE IF FORCED_ACTION(s) THEN "action"
  ELSE IF SCENE_HEADING(s) THEN "scene"
  ELSE IF inDlg /\ PARENTHETICAL(s) THEN "parenthetical"
  ELSE IF inDlg /\ ~CHARACTER(s) THEN "dialogue"
  ELSE IF TRANSITION(s) THEN "transition"
  ELSE IF CHARACTER(s) /\ ~inDlg /\ hasNext THEN "character"
  ELSE "action"

\* the chain of tests on trimmedLine that sets type
ClassifyType(s, inDlg, lastChar, hasNext) ==
  IF FORCED_SCENE(s) THEN "scene"
  ELSE IF FORCED_CHARACTER(s) THEN "character"
  ELSE IF FORCED_TRANSITION(s) THEN "transition"
  ELSE IF FORCED_ACTION(s) THEN "action"
  ELSE IF SCENE_HEADING(s) THEN "scene"
  ELSE IF lastChar /\ PARENTHETICAL(s) THEN "parenthetical"
  ELSE IF inDlg /\ ~CHARACTER(s) THEN "dialogue"
  ELSE IF TRANSITION(s) THEN "transition"
  ELSE IF CHARACTER(s) /\ ~inDlg /\ hasNext THEN "character"
  ELSE "action"

\* the same chain, for text
ClassifyText(s) ==
  IF FORCED_SCENE(s) \/ FORCED_CHARACTER(s) \/ FORCED_TRANSITION(s) \/ FORCED_ACTION(s)
  THEN trim(Tail(s))
  ELSE IF SCENE_HEADING(s) THEN trim(ReplaceSceneNumber(s))
  ELSE s

\* NextInDialogue that a line outside the dialogue types does not reset
NextInDialogue_NoReset(type, inDlg) ==
  IF type = "character" THEN TRUE ELSE inDlg

\* inDialogue / lastCharacterLine after a line of this type
NextInDialogue(type, inDlg) ==
  IF type = "character" THEN TRUE
  ELSE IF type \notin {"parenthetical", "dialogue"} THEN FALSE
  ELSE inDlg

NextLastCharacterLine(type) == type = "character"

InitParse ==
  /\ pc = "title"
  /\ \E t \in FountainTexts : rawLines = split(t)
  /\ i = 0
  /\ lines = <<>>
  /\ script = NoScript
  /\ IdleParse
  /\ IdleExport /\ IdleValidate /\ IdleStats /\ IdleUi

\* where parseFountain is after the title page loop's test
AfterTitleTest(ii, inTitle) ==
  IF ii < Len(rawLines) /\ inTitle THEN "title"
  ELSE IF ii < Len(rawLines) THEN "body" ELSE "return"

\* one pass of the title page loop
TitleStep ==
  /\ pc = "title"
  /\ LET line == rawLines[i + 1]
     IN  IF BLANK(line)
         THEN /\ inTitlePage' = (inTitlePage /\ ~BlankEndsTitlePage(rawLines, i, metadata))
              /\ i' = i + 1
              /\ metadata' = metadata
         ELSE IF TITLE_PAGE(line)
         THEN /\ metadata' = SetMetadata(metadata, line)
              /\ i' = i + 1
              /\ inTitlePage' = inTitlePage
         ELSE /\ inTitlePage' = FALSE
              /\ UNCHANGED <<i, metadata>>
  /\ pc' = AfterTitleTest(i', inTitlePage')
  /\ UNCHANGED <<rawLines, inDialogue, lastCharacterLine, lines, srcIdx, nextId,
                 script, exportVars, validateVars, statsVars, uiVars>>

\* BodyStep in which a blank line leaves inDialogue and lastCharacterLine alone
BodyStep_NoBlankReset ==
  /\ pc = "body"
  /\ LET trimmedLine == trim(rawLines[i + 1])
     IN  IF BLANK(trimmedLine)
         THEN UNCHANGED <<inDialogue, lastCharacterLine, lines, srcIdx, nextId>>
         ELSE LET type == ClassifyType(trimmedLine, inDialogue, lastCharacterLine,
                                       HasNonBlankFrom(rawLines, i + 1))
                  text == ClassifyText(trimmedLine)
              IN  /\ inDialogue' = NextInDialogue(type, inDialogue)
                  /\ lastCharacterLine' = NextLastCharacterLine(type)
                  /\ lines' = Append(lines, [id |-> nextId, type |-> type, text |-> text])
                  /\ srcIdx' = Append(srcIdx, i + 1)
                  /\ nextId' = nextId + 1
  /\ i' = i + 1
  /\ pc' = IF i' < Len(rawLines) THEN "body" ELSE "return"
  /\ UNCHANGED <<rawLines, inTitlePage, metadata, script, exportVars,
                 validateVars, statsVars, uiVars>>

\* one pass of the body loop
BodyStep ==
  /\ pc = "body"
  /\ LET trimmedLine == trim(rawLines[i + 1])
     IN  IF BLANK(trimmedLine)
         THEN /\ inDialogue' = FALSE
              /\ lastCharacterLine' = FALSE
              /\ UNCHANGED <<lines, srcIdx, nextId>>
         ELSE LET type == ClassifyType(trimmedLine, inDialogue, lastCharacterLine,
                                       HasNonBlankFrom(rawLines, i + 1))
                  text == ClassifyText(trimmedLine)
              IN  /\ inDialogue' = NextInDialogue(type, inDialogue)
                  /\ lastCharacterLine' = NextLastCharacterLine(type)
                  /\ lines' = Append(lines, [id |-> nextId, type |-> type, text |-> text])
                  /\ srcIdx' = Append(srcIdx, i + 1)
                  /\ nextId' = nextId + 1
  /\ i' = i + 1
  /\ pc' = IF i' < Len(rawLines) THEN "body" ELSE "return"
  /\ UNCHANGED <<rawLines, inTitlePage, metadata, script, exportVars,
                 validateVars, statsVars, uiVars>>

\* const script = { title: metadata.title || 'Untitled', ... }; return { script, lines }
ParseReturn ==
  /\ pc = "return"
  /\ script' = [ title |-> IF "title" \in DOMAIN metadata /\ metadata["title"] # <<>>
                           THEN metadata["title"] ELSE Untitled,
                 description |-> IF "notes" \in DOMAIN metadata
                                 THEN metadata["notes"] ELSE <<>>,
                 author |-> IF "author" \in DOMAIN metadata
                            THEN Some(metadata["author"]) ELSE None,
                 logline |-> None,
                 lines |-> lines ]
  /\ pc' = "parsed"
  /\ UNCHANGED <<rawLines, i, lines, parseVars, exportVars, validateVars, statsVars, uiVars>>

NextParse == TitleStep \/ BodyStep \/ ParseReturn

ParseSpec == InitParse /\ [][NextParse]_vars

-----------------------------------------------------------------------------
(* exportToFountain *)

\* if (script.author): the field is there and not the empty string
Truthy(opt) == opt # None /\ opt[1] # <<>>

T_empty == <<>>
T_plain == <<"H","i">>
T_cue == <<"J","O">>
T_openParen == <<"(","x">>
T_closeParen == <<"x",")">>
T_loneParen == <<"(">>
T_scene == <<"i","n","t","."," ","a">>

\* the texts a Line of a stored script may hold: the editor accepts any text
\* under any type
LineTexts == {T_empty, T_plain, T_cue, T_openParen, T_closeParen, T_loneParen, T_scene}

\* the Line sequences of at most n Lines, ids being positions
RECURSIVE LineSeqs(_)
LineSeqs(n) ==
  IF n = 0 THEN {<<>>}
  ELSE LET shorter == LineSeqs(n - 1)
       IN  shorter \cup
           { Append(ls, [id |-> Len(ls) + 1, type |-> ty, text |-> tx]) :
               ls \in shorter, ty \in LineTypes, tx \in LineTexts }

\* new Date().toLocaleDateString(): the day and the locale are the machine's
DateStrings ==
  { <<"1","1","/","5","/","2","0","2","6">>, <<"5",".","1","1",".","2","0","2","6">> }

ScriptTitle == <<"T">>
ScriptAuthors == {None, Some(<<"A","l">>)}
ScriptLoglines == {None, Some(<<"N">>)}

\* NeedsBlankBefore without the rule for the end of a dialogue block
NeedsBlankBefore_NoDialogueRule(last, type) ==
  /\ last # "null"
  /\ \/ type = "scene" \/ last = "scene"
     \/ type = "character" /\ last # "character"
     \/ type = "transition" \/ last = "transition"

\* the separator test before a line: a blank line is pushed
NeedsBlankBefore(last, type) ==
  /\ last # "null"
  /\ \/ type = "scene" \/ last = "scene"
     \/ type = "character" /\ last # "character"
     \/ last = "dialogue" /\ type # "parenthetical" /\ type # "dialogue"
     \/ type = "transition" \/ last = "transition"

\* String.prototype.slice(0, -1)
DropLast(s) == SubSeq(s, 1, Len(s) - 1)

\* the switch (line.type) that sets formattedLine
FormatLine(type, text) ==
  CASE type = "scene" ->
         IF ~SCENE_HEADING(text) THEN <<".">> \o text ELSE toUpperCase(text)
    [] type = "character" -> toUpperCase(text)
    [] type = "parenthetical" ->
         LET wrapped == IF ~startsWith(text, "(")
                        THEN <<"(">> \o text \o <<")">> ELSE text
         IN  IF ~endsWith(wrapped, ")")
             THEN DropLast(wrapped) \o <<")">> ELSE wrapped
    [] type = "dialogue" -> text
    [] type = "transition" ->
         IF ~TRANSITION(text) THEN <<">">> \o text ELSE toUpperCase(text)
    [] type = "action" ->
         IF SCENE_HEADING(text) \/ CHARACTER(text) \/ TRANSITION(text)
         THEN <<"!">> \o text ELSE text
    [] OTHER -> text

Str_Title == <<"T","i","t","l","e",":"," ">>
Str_Author == <<"A","u","t","h","o","r",":"," ">>
Str_DraftDate == <<"D","r","a","f","t"," ","d","a","t","e",":"," ">>
Str_Notes == <<"N","o","t","e","s",":"," ">>

\* the title page lines pushed before the body
TitlePageOutput(sc, date) ==
  <<Str_Title \o sc.title>>
    \o (IF Truthy(sc.author) THEN <<Str_Author \o sc.author[1]>> ELSE <<>>)
    \o <<Str_DraftDate \o date>>
    \o (IF Truthy(sc.logline) THEN <<Str_Notes \o sc.logline[1]>> ELSE <<>>)
    \o << <<>> >>

InitExport ==
  /\ pc = "export"
  /\ \E ls \in LineSeqs(MaxScriptLines) : \E au \in ScriptAuthors :
     \E lg \in ScriptLoglines :
       /\ script = [title |-> ScriptTitle, description |-> <<>>, author |-> au,
                    logline |-> lg, lines |-> ls]
       /\ lines = ls
  /\ rawLines = <<>>
  /\ i = 0
  /\ IdleParse /\ IdleExport /\ IdleValidate /\ IdleStats /\ IdleUi

\* the title page
ExportTitlePage ==
  /\ pc = "export"
  /\ \E date \in DateStrings : output' = TitlePageOutput(script, date)
  /\ lastType' = "null"
  /\ i' = 0
  /\ pc' = IF Len(script.lines) > 0 THEN "exportBody" ELSE "exportReturn"
  /\ UNCHANGED <<rawLines, lines, script, parseVars, outIdx, exported,
                 validateVars, statsVars, uiVars>>

\* one pass of for (const line of script.lines)
ExportLine ==
  /\ pc = "exportBody"
  /\ LET line == script.lines[i + 1]
         sep  == IF NeedsBlankBefore(lastType, line.type) THEN << <<>> >> ELSE <<>>
     IN  /\ output' = output \o sep \o <<FormatLine(line.type, line.text)>>
         /\ outIdx' = Append(outIdx, Len(output) + Len(sep) + 1)
         /\ lastType' = line.type
  /\ i' = i + 1
  /\ pc' = IF i' < Len(script.lines) THEN "exportBody" ELSE "exportReturn"
  /\ UNCHANGED <<rawLines, lines, script, parseVars, exported, validateVars, statsVars, uiVars>>

\* return output.join('\n')
ExportReturn ==
  /\ pc = "exportReturn"
  /\ exported' = join(output)
  /\ pc' = "exported"
  /\ UNCHANGED <<rawLines, i, lines, script, parseVars, output, lastType, outIdx,
                 validateVars, statsVars, uiVars>>

NextExport == ExportTitlePage \/ ExportLine \/ ExportReturn

ExportSpec == InitExport /\ [][NextExport]_vars

\* the exported text is decoded again: parseFountain(exportToFountain(script));
\* the call starts with parseFountain's own initial locals, and prevLines
\* keeps the Lines that were encoded
Redecode ==
  /\ pc = "exported"
  /\ rawLines' = split(exported)
  /\ i' = 0
  /\ lines' = <<>>
  /\ inTitlePage' = TRUE
  /\ inDialogue' = FALSE
  /\ lastCharacterLine' = FALSE
  /\ metadata' = <<>>
  /\ srcIdx' = <<>>
  /\ prevLines' = script.lines
  /\ pc' = "title"
  /\ UNCHANGED <<script, nextId, exportVars, validateVars, statsVars, navVars,
                 timers, saveTimeoutRef, saved, edits, lastOp, db>>

NextRoundTrip == NextExport \/ Redecode \/ NextParse

RoundTripSpec == InitExport /\ [][NextRoundTrip]_vars

\* the decoded script is encoded: exportToFountain of the script built from
\* parseFountain(T), once
Encode ==
  /\ pc = "parsed"
  /\ exported = <<>>
  /\ pc' = "export"
  /\ UNCHANGED <<rawLines, i, lines, script, parseVars, exportVars,
                 validateVars, statsVars, uiVars>>

NextReencode == NextParse \/ Encode \/ NextExport \/ Redecode

\* decode, encode, decode again
ReencodeSpec == InitParse /\ [][NextReencode]_vars

-----------------------------------------------------------------------------
(* validateFountain *)

V_empty == <<>>
V_space == <<" ">>
V_tabCR == <<"\t","\r">>
V_plain == <<"H","i">>
V_padded == <<" ","H","i"," ">>

ValidateLineCorpus == {V_empty, V_space, V_tabCR, V_plain, V_padded}

\* every text of at most n lines over the corpus, lines joined by "\n"
RECURSIVE ValidateTextsOf(_)
ValidateTextsOf(n) ==
  IF n <= 1 THEN ValidateLineCorpus
  ELSE LET shorter == ValidateTextsOf(n - 1)
       IN  shorter \cup {t \o <<"\n">> \o l : t \in shorter, l \in ValidateLineCorpus}

DocumentIsEmpty == <<"D","o","c","u","m","e","n","t"," ","i","s"," ","e","m","p","t","y">>

\* LineHasContent that does not trim the line
LineHasContent_NoTrim(line) == line # <<>>

\* const line = lines[i].trim(); if (line)
LineHasContent(line) == trim(line) # <<>>

InitValidate ==
  /\ pc = "validate"
  /\ \E t \in ValidateTextsOf(MaxRawLines) : rawLines = split(t)
  /\ i = 0
  /\ lines = <<>>
  /\ script = NoScript
  /\ IdleParse /\ IdleExport /\ IdleValidate /\ IdleStats /\ IdleUi

\* one pass of for (let i = 0; i < lines.length; i++)
ValidateStep ==
  /\ pc = "validate"
  /\ i < Len(rawLines)
  /\ hasContent' = (hasContent \/ LineHasContent(rawLines[i + 1]))
  /\ i' = i + 1
  /\ UNCHANGED <<pc, rawLines, lines, script, parseVars, exportVars, validation, statsVars, uiVars>>

\* if (!hasContent) errors.push(...); return { valid: errors.length === 0, errors }
ValidateReturn ==
  /\ pc = "validate"
  /\ i >= Len(rawLines)
  /\ LET errors == IF ~hasContent THEN <<DocumentIsEmpty>> ELSE <<>>
     IN  validation' = [valid |-> (Len(errors) = 0), errors |-> errors]
  /\ pc' = "validated"
  /\ UNCHANGED <<rawLines, i, lines, script, parseVars, exportVars, hasContent, statsVars, uiVars>>

NextValidate == ValidateStep \/ ValidateReturn

ValidateSpec == InitValidate /\ [][NextValidate]_vars

-----------------------------------------------------------------------------
(* calculatePageStats (pageCount.ts) and the editor's totalPages             *)
(*                                                                           *)
(* Weights are held in tenths of a line and pageCount in tenths of a page,   *)
(* so every quantity is an integer.  Math.round(w / 55 * 10) never meets a   *)
(* tie (10 w / 55 = n + 1/2 would make an even number odd), so the floating  *)
(* point result is the rounded quotient computed here.                       *)

LINES_PER_PAGE == 55
ActionCharsPerLine == 60
DialogueCharsPerLine == 35

\* LINE_WEIGHTS with the editor's weights for dialogue and transition
LINE_WEIGHTS_AsEditor(type) ==
  CASE type = "scene" -> 20
    [] type = "action" -> 10
    [] type = "character" -> 15
    [] type = "parenthetical" -> 5
    [] type = "dialogue" -> 10
    [] type = "transition" -> 20
    [] OTHER -> 10

\* LINE_WEIGHTS[type] || 1 of pageCount.ts, in tenths
LINE_WEIGHTS(type) ==
  CASE type = "scene" -> 20
    [] type = "action" -> 10
    [] type = "character" -> 15
    [] type = "parenthetical" -> 5
    [] type = "dialogue" -> 8
    [] type = "transition" -> 15
    [] OTHER -> 10

\* LINE_WEIGHTS[type] || 1 of ScriptEditor.tsx, in tenths
EditorLineWeights(type) ==
  CASE type = "scene" -> 20
    [] type = "action" -> 10
    [] type = "character" -> 15
    [] type = "parenthetical" -> 5
    [] type = "dialogue" -> 10
    [] type = "transition" -> 20
    [] OTHER -> 10

\* Math.ceil(a / b) for a >= 0, b > 0
Ceil(a, b) == (a + b - 1) \div b

\* Math.round(a / b) for a >= 0, b > 0: halves round up
Round(a, b) == (2 * a + b) \div (2 * b)

Max(a, b) == IF a >= b THEN a ELSE b

\* Math.ceil(content.length / perLine) || 1
WrappedLines(content, perLine) ==
  IF Ceil(Len(content), perLine) = 0 THEN 1 ELSE Ceil(Len(content), perLine)

\* how many lines a Line wraps to: action and dialogue only
WrapFactor(line) ==
  IF line.type = "action" THEN WrappedLines(line.text, ActionCharsPerLine)
  ELSE IF line.type = "dialogue" THEN WrappedLines(line.text, DialogueCharsPerLine)
  ELSE 1

\* content.trim().split(/\s+/).filter(w => w.length > 0).length
WordsIn(content) ==
  Cardinality({k \in 1..Len(content) :
                 ~IsSpace(content[k]) /\ (k = 1 \/ IsSpace(content[k - 1]))})

\* PageCountOf without the floor of one page
PageCountOf_NoFloor(weighted) == Round(weighted, LINES_PER_PAGE)

\* Math.max(1, Math.round(weightedLines / LINES_PER_PAGE * 10) / 10), in tenths
PageCountOf(weighted) == Max(10, Round(weighted, LINES_PER_PAGE))

\* Math.round(pageCount), pageCount in tenths
EstimatedMinutesOf(pageCount) == (pageCount + 5) \div 10

\* Math.max(1, Math.ceil(weightedLineCount / LINES_PER_PAGE)), the weight in tenths
TotalPagesOf(weighted) == Max(1, Ceil(weighted, 10 * LINES_PER_PAGE))

S_empty == <<>>
S_words == <<"O","n","e"," ","t","w","o">>
\* a text long enough for two Lines of it to pass a page
S_long == [k \in 1..LongTextLen |-> "a"]

StatTexts == {S_empty, S_words, S_long}

\* the Line sequences of at most n Lines, ids being positions
RECURSIVE StatLineSeqs(_)
StatLineSeqs(n) ==
  IF n = 0 THEN {<<>>}
  ELSE LET shorter == StatLineSeqs(n - 1)
       IN  shorter \cup
           { Append(ls, [id |-> Len(ls) + 1, type |-> ty, text |-> tx]) :
               ls \in shorter, ty \in LineTypes, tx \in StatTexts }

InitStats ==
  /\ pc = "stats"
  /\ lines \in StatLineSeqs(MaxScriptLines)
  /\ rawLines = <<>>
  /\ i = 0
  /\ script = NoScript
  /\ IdleParse /\ IdleExport /\ IdleValidate /\ IdleStats /\ IdleUi

\* one pass of for (const line of lines) in calculatePageStats
StatsStep ==
  /\ pc = "stats"
  /\ i < Len(lines)
  /\ LET line == lines[i + 1]
     IN  /\ wordCount' = wordCount + WordsIn(line.text)
         /\ weightedLines' = weightedLines + WrapFactor(line) * LINE_WEIGHTS(line.type)
  /\ i' = i + 1
  /\ UNCHANGED <<pc, rawLines, lines, script, parseVars, exportVars, validateVars,
                 stats, navWeighted, totalPages, uiVars>>

\* the early return for no lines, and the return after the loop
StatsReturn ==
  /\ pc = "stats"
  /\ i >= Len(lines)
  /\ stats' = IF Len(lines) = 0 THEN NoStats
              ELSE [pageCount |-> PageCountOf(weightedLines),
                    estimatedMinutes |-> EstimatedMinutesOf(PageCountOf(weightedLines)),
                    lineCount |-> Len(lines),
                    wordCount |-> wordCount]
  /\ pc' = "nav"
  /\ i' = 0
  /\ UNCHANGED <<rawLines, lines, script, parseVars, exportVars, validateVars,
                 weightedLines, wordCount, navWeighted, totalPages, uiVars>>

\* one pass of for (const line of lines) in the editor's totalPages
NavStep ==
  /\ pc = "nav"
  /\ i < Len(lines)
  /\ LET line == lines[i + 1]
     IN  navWeighted' = navWeighted + WrapFactor(line) * EditorLineWeights(line.type)
  /\ i' = i + 1
  /\ UNCHANGED <<pc, rawLines, lines, script, parseVars, exportVars, validateVars,
                 weightedLines, wordCount, stats, totalPages, uiVars>>

\* return Math.max(1, Math.ceil(weightedLineCount / LINES_PER_PAGE))
NavReturn ==
  /\ pc = "nav"
  /\ i >= Len(lines)
  /\ totalPages' = TotalPagesOf(navWeighted)
  /\ pc' = "navDone"
  /\ UNCHANGED <<rawLines, i, lines, script, parseVars, exportVars, validateVars,
                 weightedLines, wordCount, stats, navWeighted, uiVars>>

NextStats == StatsStep \/ StatsReturn \/ NavStep \/ NavReturn

StatsSpec == InitStats /\ [][NextStats]_vars

-----------------------------------------------------------------------------
(* The editor's page navigator (ScriptEditor.tsx): calculatePageBreaks,      *)
(* getSceneList, totalPages, scrollToPage and getPageNumber.  Weights are in *)
(* tenths of a line, as above.                                               *)

\* lineWeight of one Line after the wrapping factor, in tenths
EditorLineWeight(line) == WrapFactor(line) * EditorLineWeights(line.type)

\* weightedLineCount >= LINES_PER_PAGE, the count in tenths
ReachesPage(weighted) == weighted >= 10 * LINES_PER_PAGE

\* PageBreaksFrom that keeps the accumulator after a break
RECURSIVE PageBreaksFrom_NoReset(_, _, _)
PageBreaksFrom_NoReset(ls, k, w) ==
  IF k >= Len(ls) THEN <<>>
  ELSE LET w2 == w + EditorLineWeight(ls[k + 1])
       IN  IF ReachesPage(w2)
           THEN <<k>> \o PageBreaksFrom_NoReset(ls, k + 1, w2)
           ELSE PageBreaksFrom_NoReset(ls, k + 1, w2)

\* the loop of calculatePageBreaks from 0-based index k with accumulator w
RECURSIVE PageBreaksFrom(_, _, _)
PageBreaksFrom(ls, k, w) ==
  IF k >= Len(ls) THEN <<>>
  ELSE LET w2 == w + EditorLineWeight(ls[k + 1])
       IN  IF ReachesPage(w2)
           THEN <<k>> \o PageBreaksFrom(ls, k + 1, 0)
           ELSE PageBreaksFrom(ls, k + 1, w2)

calculatePageBreaks(ls) == PageBreaksFrom(ls, 0, 0)

\* the loop of getSceneList from 0-based index k
RECURSIVE SceneListFrom(_, _, _, _)
SceneListFrom(ls, k, w, page) ==
  IF k >= Len(ls) THEN <<>>
  ELSE LET line == ls[k + 1]
           w2 == w + EditorLineWeight(line)
           currentPage == IF ReachesPage(w2) THEN page + 1 ELSE page
           entry == IF line.type = "scene" /\ trim(line.text) # <<>>
                    THEN << [index |-> k, text |-> line.text, page |-> currentPage] >>
                    ELSE <<>>
       IN  entry \o SceneListFrom(ls, k + 1, IF ReachesPage(w2) THEN 0 ELSE w2,
                                  currentPage)

getSceneList(ls) == SceneListFrom(ls, 0, 0, 1)

\* the loop of scrollToPage from 0-based index k: the index handed to
\* scrollToLine, NoTarget when the loop ends without a call
RECURSIVE ScrollFrom(_, _, _, _, _)
ScrollFrom(ls, k, w, targetPage, page) ==
  IF k >= Len(ls) THEN NoTarget
  ELSE IF targetPage = page THEN k
  ELSE LET w2 == w + EditorLineWeight(ls[k + 1])
       IN  IF ReachesPage(w2)
           THEN ScrollFrom(ls, k + 1, 0, targetPage + 1, page)
           ELSE ScrollFrom(ls, k + 1, w2, targetPage, page)

scrollToPage(ls, page) == ScrollFrom(ls, 0, 0, 1, page)

\* the loop of getPageNumber from the j-th break (1-based in breaks)
RECURSIVE PageNumberFrom(_, _, _, _)
PageNumberFrom(breaks, j, idx, page) ==
  IF j > Len(breaks) THEN page
  ELSE IF breaks[j] < idx THEN PageNumberFrom(breaks, j + 1, idx, page + 1)
  ELSE page

getPageNumber(breaks, idx) == PageNumberFrom(breaks, 1, idx, 1)

\* an action text that wraps to a page less the two lines of a scene heading
S_page == [k \in 1..((LINES_PER_PAGE - 2) * ActionCharsPerLine) |-> "a"]

NavTexts == {S_empty, S_words, S_long, S_page}

\* the Line sequences of at most n Lines, ids being positions
RECURSIVE NavLineSeqs(_)
NavLineSeqs(n) ==
  IF n = 0 THEN {<<>>}
  ELSE LET shorter == NavLineSeqs(n - 1)
       IN  shorter \cup
           { Append(ls, [id |-> Len(ls) + 1, type |-> ty, text |-> tx]) :
               ls \in shorter, ty \in LineTypes, tx \in NavTexts }

InitNav ==
  /\ pc = "nav"
  /\ lines \in NavLineSeqs(MaxScriptLines)
  /\ rawLines = <<>>
  /\ i = 0
  /\ script = NoScript
  /\ IdleParse /\ IdleExport /\ IdleValidate /\ IdleStats /\ IdleUi

\* the useMemo of pageBreaks and of sceneList, once totalPages is computed
RenderNavigator ==
  /\ pc = "navDone"
  /\ pageBreaks' = calculatePageBreaks(lines)
  /\ sceneList' = getSceneList(lines)
  /\ pc' = "rendered"
  /\ UNCHANGED <<rawLines, i, lines, script, parseVars, exportVars, validateVars,
                 statsVars, scrollTarget, editorVars, db>>

\* a click on one of the page buttons 1..totalPages: scrollToPage(page)
ClickPage ==
  /\ pc = "rendered"
  /\ \E page \in 1..totalPages :
       /\ scrollTarget' = scrollToPage(lines, page)
       /\ lastOp' = [op |-> "page", idx |-> page, shift |-> FALSE]
  /\ pc' = "scrolled"
  /\ UNCHANGED <<rawLines, i, lines, script, parseVars, exportVars, validateVars,
                 statsVars, pageBreaks, sceneList, timers, saveTimeoutRef, saved,
                 edits, prevLines, db>>

NextNav == NavStep \/ NavReturn \/ RenderNavigator \/ ClickPage

PageNavSpec == InitNav /\ [][NextNav]_vars

-----------------------------------------------------------------------------
(* The import:fountain handler (ipc/handlers.ts) and addScript (db.ts) *)

\* the one Line every script made by addScript starts with
InitialLines(id) == << [id |-> id, text |-> <<>>, type |-> "scene"] >>

\* the record addScript builds from its argument: data.lines is not read
NewScript(data, lineId, scriptId) ==
  [ id |-> scriptId,
    title |-> IF data.title # <<>> THEN data.title ELSE Untitled,
    description |-> data.description,
    logline |-> data.logline,
    author |-> data.author,
    lines |-> InitialLines(lineId),
    characterIds |-> <<>> ]

\* const script = await addScript({ ...scriptData, lines }), after parseFountain
\* has returned
ImportAddScript ==
  /\ pc = "parsed"
  /\ db' = [db EXCEPT !.scripts =
              Append(@, NewScript([script EXCEPT !.lines = lines], nextId, nextId + 1))]
  /\ nextId' = nextId + 2
  /\ pc' = "imported"
  /\ UNCHANGED <<rawLines, i, lines, script, inTitlePage, inDialogue,
                 lastCharacterLine, metadata, srcIdx, exportVars, validateVars,
                 statsVars, navVars, editorVars>>

NextImport == NextParse \/ ImportAddScript

ImportSpec == InitParse /\ [][NextImport]_vars

-----------------------------------------------------------------------------
(* The store (db.ts): addCharacter, deleteCharacter and updateScript as the  *)
(* script page's handleSave calls it (ScriptPage.tsx)                        *)

\* the number of characters ever created
MaxCharacters == 2

\* the scripts of the store, and a scriptId no stored script has
StoredScriptIds == {1, 2}
ScriptIds == StoredScriptIds \cup {3}

\* the lines the editor hands to onSave
SavedLineSeqs == {<<>>, <<[id |-> 1, text |-> T_plain, type |-> "action"]>>}

\* the elements of an array
Elems(seq) == {seq[k] : k \in 1..Len(seq)}

\* Object.assign(target, updates): the fields of updates replace the target's
ObjectAssign(target, updates) ==
  [f \in DOMAIN target \cup DOMAIN updates |->
     IF f \in DOMAIN updates THEN updates[f] ELSE target[f]]

\* the store after addCharacter(data), the new character's id being id
addCharacter(d, scriptId, id) ==
  [ scripts |-> [k \in 1..Len(d.scripts) |->
                   IF d.scripts[k].id = scriptId
                      /\ id \notin Elems(d.scripts[k].characterIds)
                   THEN [d.scripts[k] EXCEPT !.characterIds = Append(@, id)]
                   ELSE d.scripts[k]],
    characters |-> Append(d.characters, [id |-> id, scriptId |-> scriptId]) ]

\* the store after deleteCharacter(id) for a stored character
deleteCharacter(d, id) ==
  LET character == CHOOSE c \in Elems(d.characters) : c.id = id
      Other(x) == x # id
      NotIt(c) == c.id # id
  IN  [ scripts |-> [k \in 1..Len(d.scripts) |->
                       IF d.scripts[k].id = character.scriptId
                       THEN [d.scripts[k] EXCEPT
                               !.characterIds = SelectSeq(@, Other)]
                       ELSE d.scripts[k]],
        characters |-> SelectSeq(d.characters, NotIt) ]

\* the store after updateScript(id, updates)
updateScript(d, id, updates) ==
  [d EXCEPT !.scripts = [k \in 1..Len(d.scripts) |->
                           IF d.scripts[k].id = id
                           THEN ObjectAssign(d.scripts[k], updates)
                           ELSE d.scripts[k]]]

\* const { id, ...updates } = script of the script:update handler
WithoutId(s) == [f \in DOMAIN s \ {"id"} |-> s[f]]

\* two stored scripts without characters; no script page is open
InitStore ==
  /\ pc = "store"
  /\ db = [ scripts |-> << NewScript([title |-> ScriptTitle, description |-> <<>>,
                                      logline |-> None, author |-> None], 3, 1),
                           NewScript([title |-> <<>>, description |-> <<>>,
                                      logline |-> None, author |-> None], 4, 2) >>,
            characters |-> <<>> ]
  /\ nextId = 5
  /\ script = NoScript
  /\ rawLines = <<>> /\ i = 0 /\ lines = <<>>
  /\ inTitlePage = TRUE /\ inDialogue = FALSE /\ lastCharacterLine = FALSE
  /\ metadata = <<>> /\ srcIdx = <<>>
  /\ IdleExport /\ IdleValidate /\ IdleStats
  /\ pageBreaks = <<>> /\ sceneList = <<>> /\ scrollTarget = NoTarget
  /\ timers = {} /\ saveTimeoutRef = NoTimer /\ saved = NotSaved
  /\ edits = 0 /\ lastOp = NoOp /\ prevLines = <<>>

\* the script page opens a stored script: setScript(await getScript(id))
LoadScript ==
  /\ script = NoScript
  /\ \E k \in 1..Len(db.scripts) : script' = db.scripts[k]
  /\ UNCHANGED <<pc, rawLines, i, lines, parseVars, exportVars, validateVars,
                 statsVars, uiVars>>

\* the characters panel creates a character
AddCharacter ==
  /\ nextId < 5 + MaxCharacters
  /\ \E scriptId \in ScriptIds : db' = addCharacter(db, scriptId, nextId)
  /\ nextId' = nextId + 1
  /\ UNCHANGED <<pc, rawLines, i, lines, script, inTitlePage, inDialogue,
                 lastCharacterLine, metadata, srcIdx, exportVars, validateVars,
                 statsVars, navVars, editorVars>>

\* the characters panel deletes a stored character
DeleteCharacter ==
  /\ \E c \in Elems(db.characters) : db' = deleteCharacter(db, c.id)
  /\ UNCHANGED <<pc, rawLines, i, lines, script, parseVars, exportVars,
                 validateVars, statsVars, navVars, editorVars>>

\* the editor's auto-save: handleSave(updatedLines) of the open script page
HandleSave ==
  /\ script # NoScript
  /\ \E updatedLines \in SavedLineSeqs :
       /\ db' = updateScript(db, script.id,
                             WithoutId([script EXCEPT !.lines = updatedLines]))
       /\ script' = [script EXCEPT !.lines = updatedLines]
  /\ UNCHANGED <<pc, rawLines, i, lines, parseVars, exportVars, validateVars,
                 statsVars, navVars, editorVars>>

NextStore == LoadScript \/ AddCharacter \/ DeleteCharacter \/ HandleSave

StoreSpec == InitStore /\ [][NextStore]_vars

-----------------------------------------------------------------------------
(* The editor (ScriptEditor.tsx): key handling, text changes and the         *)
(* debounced save, on the Lines of a decoded document.  A pending timer is a *)
(* record of its id and of the lines its callback hands to onSave; the id of *)
(* the timer set by the n-th updateLines call is n.                          *)

\* updateLines calls made in one run of the editor
MaxEdits == 2

\* the documents the editor is opened on: no Lines, a transition, a cue and
\* its dialogue
EditorDocs == {L_blank, L_forcedTrans, L_cue \o <<"\n">> \o L_plain}

E_empty == <<>>
E_ext == <<"e","x","t",".">>
E_to == <<"t","o",":">>
E_plain == <<"H","i">>

\* the values a change event of a textarea carries
EditorValues == {E_empty, E_ext, E_to, E_plain}

getNextTypeAfterEnter(current) ==
  CASE current = "scene" -> "action"
    [] current = "action" -> "action"
    [] current = "character" -> "dialogue"
    [] current = "parenthetical" -> "dialogue"
    [] current = "dialogue" -> "character"
    [] current = "transition" -> "scene"
    [] OTHER -> "action"

\* LINE_TYPES.indexOf(current), 0-based, -1 when absent
IndexOfType(current) ==
  IF current \in LineTypes
  THEN (CHOOSE k \in 1..Len(LINE_TYPES) : LINE_TYPES[k] = current) - 1
  ELSE -1

\* cycleType that steps forward whatever delta is
cycleType_IgnoreDelta(current, delta) ==
  LINE_TYPES[((IndexOfType(current) + 1 + Len(LINE_TYPES)) % Len(LINE_TYPES)) + 1]

cycleType(current, delta) ==
  LINE_TYPES[((IndexOfType(current) + delta + Len(LINE_TYPES)) % Len(LINE_TYPES)) + 1]

EditorScenePrefixes ==
  { <<"I","N","T",".">>, <<"E","X","T",".">>,
    <<"I","N","T","/","E","X","T",".">>, <<"I","/","E",".">> }

\* /^(INT\.|EXT\.|INT\/EXT\.|I\/E\.)\s*/i
DetectsScene(value) == \E p \in EditorScenePrefixes : MatchAtCI(value, 1, p)

\* /\s*TO:$/i
DetectsTransition(value) ==
  Len(value) >= 3 /\ MatchAtCI(value, Len(value) - 2, <<"T","O",":">>)

\* the Line handleChange leaves at a place that held line
ChangedLine(line, value) ==
  IF DetectsScene(value) /\ line.type # "scene"
  THEN [line EXCEPT !.text = toUpperCase(value), !.type = "scene"]
  ELSE IF DetectsTransition(value) /\ line.type # "transition"
  THEN [line EXCEPT !.text = toUpperCase(value), !.type = "transition"]
  ELSE IF line.type \in {"scene", "transition"}
  THEN [line EXCEPT !.text = toUpperCase(value)]
  ELSE [line EXCEPT !.text = value]

\* EnterLines giving the new Line the id of the Line it was split from
EnterLines_CopyId(ls, idx, selStart, selEnd, id) ==
  LET line == ls[idx]
      textBefore == SubSeq(line.text, 1, selStart)
      textAfter == SubSeq(line.text, selEnd + 1, Len(line.text))
      nextType == IF textAfter # <<>> THEN line.type
                  ELSE getNextTypeAfterEnter(line.type)
      newLine == [id |-> line.id, text |-> textAfter, type |-> nextType]
  IN  SubSeq(ls, 1, idx - 1) \o << [line EXCEPT !.text = textBefore], newLine >>
        \o SubSeq(ls, idx + 1, Len(ls))

\* the updater of Enter: split the idx-th Line (1-based) around the selection
EnterLines(ls, idx, selStart, selEnd, id) ==
  LET line == ls[idx]
      textBefore == SubSeq(line.text, 1, selStart)
      textAfter == SubSeq(line.text, selEnd + 1, Len(line.text))
      nextType == IF textAfter # <<>> THEN line.type
                  ELSE getNextTypeAfterEnter(line.type)
      newLine == [id |-> id, text |-> textAfter, type |-> nextType]
  IN  SubSeq(ls, 1, idx - 1) \o << [line EXCEPT !.text = textBefore], newLine >>
        \o SubSeq(ls, idx + 1, Len(ls))

\* ls.filter((_, i) => i !== idx), idx 1-based
WithoutLine(ls, idx) == SubSeq(ls, 1, idx - 1) \o SubSeq(ls, idx + 1, Len(ls))

\* MergeLines that drops the removed Line's text
MergeLines_DropsText(ls, idx) == WithoutLine(ls, idx)

\* the updater of Backspace at the start of a Line that is not the first
MergeLines(ls, idx) ==
  WithoutLine([ls EXCEPT ![idx - 1].text = ls[idx - 1].text \o ls[idx].text], idx)

\* the timers pending after debouncedSave(newLines): the one saveTimeoutRef
\* names is cleared, one is set
DebouncedSave(pending, ref, id, newLines) ==
  {t \in pending : t.id # ref} \cup {[id |-> id, lines |-> newLines]}

\* the timers pending after the cleanup of the unmount effect
UnmountCleanup(pending, ref) == {t \in pending : t.id # ref}

InitEditor ==
  /\ pc = "title"
  /\ \E t \in EditorDocs : rawLines = split(t)
  /\ i = 0
  /\ lines = <<>>
  /\ script = NoScript
  /\ IdleParse
  /\ IdleExport /\ IdleValidate /\ IdleStats /\ IdleUi

\* useState(initialLines) on the Lines of the decoded script
Mount ==
  /\ pc = "parsed"
  /\ lines' = script.lines
  /\ pc' = "editing"
  /\ UNCHANGED <<rawLines, i, script, parseVars, exportVars, validateVars, statsVars,
                 uiVars>>

\* updateLines(updater) where updater(lines) = next, as the operation op
UpdateLines(next, op) ==
  /\ pc = "editing"
  /\ edits < MaxEdits
  /\ lines' = next
  /\ timers' = DebouncedSave(timers, saveTimeoutRef, edits + 1, next)
  /\ saveTimeoutRef' = edits + 1
  /\ edits' = edits + 1
  /\ lastOp' = op
  /\ prevLines' = lines
  /\ UNCHANGED <<pc, rawLines, i, script, inTitlePage, inDialogue, lastCharacterLine,
                 metadata, srcIdx, exportVars, validateVars, statsVars, navVars,
                 saved, db>>

\* Tab, Shift+Tab (and Ctrl+T, Ctrl+Shift+T) on the idx-th Line
KeyTab ==
  \E idx \in 1..Len(lines) : \E shiftKey \in BOOLEAN :
    /\ UpdateLines([lines EXCEPT ![idx].type = cycleType(@, IF shiftKey THEN -1 ELSE 1)],
                   [op |-> "tab", idx |-> idx, shift |-> shiftKey])
    /\ UNCHANGED nextId

\* Enter without Shift on the idx-th Line, the selection being selStart..selEnd
KeyEnter ==
  \E idx \in 1..Len(lines) :
    \E selStart \in 0..Len(lines[idx].text) : \E selEnd \in selStart..Len(lines[idx].text) :
      /\ UpdateLines(EnterLines(lines, idx, selStart, selEnd, nextId),
                     [op |-> "enter", idx |-> idx, shift |-> FALSE])
      /\ nextId' = nextId + 1

\* KeyBackspace that removes an empty Line even when it is the only one
KeyBackspace_NoLengthTest ==
  \E idx \in 1..Len(lines) :
    /\ IF lines[idx].text = <<>>
       THEN UpdateLines(WithoutLine(lines, idx),
                        [op |-> "delete", idx |-> idx, shift |-> FALSE])
       ELSE /\ idx > 1
            /\ UpdateLines(MergeLines(lines, idx),
                           [op |-> "merge", idx |-> idx, shift |-> FALSE])
    /\ UNCHANGED nextId

\* Backspace with the caret at the start of the idx-th Line
KeyBackspace ==
  \E idx \in 1..Len(lines) :
    /\ IF lines[idx].text = <<>> /\ Len(lines) > 1
       THEN UpdateLines(WithoutLine(lines, idx),
                        [op |-> "delete", idx |-> idx, shift |-> FALSE])
       ELSE /\ idx > 1
            /\ UpdateLines(MergeLines(lines, idx),
                           [op |-> "merge", idx |-> idx, shift |-> FALSE])
    /\ UNCHANGED nextId

\* handleChange(idx, value)
HandleChange ==
  \E idx \in 1..Len(lines) : \E value \in EditorValues :
    /\ UpdateLines([lines EXCEPT ![idx] = ChangedLine(@, value)],
                   [op |-> "change", idx |-> idx, shift |-> FALSE])
    /\ UNCHANGED nextId

\* a click below the last Line
ClickBottom ==
  LET lastLineType == IF Len(lines) > 0 THEN lines[Len(lines)].type ELSE "action"
      newLine == [id |-> nextId, text |-> <<>>,
                  type |-> getNextTypeAfterEnter(lastLineType)]
  IN  /\ UpdateLines(Append(lines, newLine),
                     [op |-> "append", idx |-> Len(lines) + 1, shift |-> FALSE])
      /\ nextId' = nextId + 1

\* a pending timer runs out: onSave(newLines)
TimerFire ==
  /\ \E t \in timers :
       /\ timers' = timers \ {t}
       /\ saved' = [ver |-> t.id, lines |-> t.lines, shown |-> FALSE]
  /\ UNCHANGED <<pc, rawLines, i, lines, script, parseVars, exportVars, validateVars,
                 statsVars, navVars, saveTimeoutRef, edits, lastOp, prevLines, db>>

\* the save has been stored and the page hands the saved lines back as
\* initialLines: setLines(initialLines)
InitialLinesEffect ==
  /\ pc = "editing"
  /\ ~saved.shown
  /\ lines' = saved.lines
  /\ saved' = [saved EXCEPT !.shown = TRUE]
  /\ lastOp' = [op |-> "reload", idx |-> 0, shift |-> FALSE]
  /\ prevLines' = lines
  /\ UNCHANGED <<pc, rawLines, i, script, parseVars, exportVars, validateVars,
                 statsVars, navVars, timers, saveTimeoutRef, edits, db>>

\* the editor is unmounted: the cleanup clears the timer saveTimeoutRef names
Unmount ==
  /\ pc = "editing"
  /\ timers' = UnmountCleanup(timers, saveTimeoutRef)
  /\ pc' = "unmounted"
  /\ UNCHANGED <<rawLines, i, lines, script, parseVars, exportVars, validateVars,
                 statsVars, navVars, saveTimeoutRef, saved, edits, lastOp, prevLines,
                 db>>

NextEditor ==
  \/ TitleStep \/ BodyStep \/ ParseReturn \/ Mount
  \/ KeyTab \/ KeyEnter \/ KeyBackspace \/ HandleChange \/ ClickBottom
  \/ TimerFire \/ InitialLinesEffect \/ Unmount

EditorSpec == InitEditor /\ [][NextEditor]_vars

\* a timer that is pending does run out
EditorLiveSpec == EditorSpec /\ WF_vars(TimerFire)

-----------------------------------------------------------------------------
(* Claims about exportToFountain *)

\* the output line written for the k-th Line of the script
Emitted(k) == output[outIdx[k]]

\* C1: the text of every scene Line (natural, or forced with a leading '.') and
\* of every character Line is written fully uppercased.
C1_SceneAndCharacterUppercased ==
  \A k \in 1..Len(outIdx) :
    LET line == script.lines[k]
    IN  /\ line.type = "scene" =>
             Emitted(k) \in {toUpperCase(line.text), <<".">> \o toUpperCase(line.text)}
        /\ line.type = "character" => Emitted(k) = toUpperCase(line.text)

\* C17: the text written for every parenthetical Line starts with '(' and ends
\* with ')'.
C17_ParentheticalWrapped ==
  \A k \in 1..Len(outIdx) :
    script.lines[k].type = "parenthetical" =>
      startsWith(Emitted(k), "(") /\ endsWith(Emitted(k), ")")

\* the boundary between two consecutive Lines of these types is one where C21
\* says a blank line is written
C21_Separated(prev, cur) ==
  \/ cur = "scene" \/ prev = "scene"
  \/ cur = "character" /\ prev # "character"
  \/ prev = "dialogue" /\ cur \notin {"dialogue", "parenthetical"}
  \/ cur = "transition" \/ prev = "transition"

\* the number of lines the title page of the running export takes, its closing
\* blank line included
C21_TitlePageLength ==
  3 + (IF Truthy(script.author) THEN 1 ELSE 0) + (IF Truthy(script.logline) THEN 1 ELSE 0)

\* C21: between two consecutive body lines exactly one blank line is written
\* when the boundary is one of the four listed and none otherwise; the first
\* body line directly follows the title page.
C21_OneSeparatorWhereDue ==
  \A k \in 1..Len(outIdx) :
    IF k = 1
    THEN outIdx[k] = C21_TitlePageLength + 1
    ELSE IF C21_Separated(script.lines[k - 1].type, script.lines[k].type)
         THEN outIdx[k] = outIdx[k - 1] + 2 /\ output[outIdx[k] - 1] = <<>>
         ELSE outIdx[k] = outIdx[k - 1] + 1

\* an export that closed a dialogue block with a blank line before an action Line
C21_Witness ==
  /\ pc = "exported"
  /\ Len(script.lines) >= 2
  /\ script.lines[1].type = "dialogue" /\ script.lines[2].type = "action"
  /\ outIdx[2] = outIdx[1] + 2 /\ output[outIdx[2] - 1] = <<>>

\* t occurs in s as a run of consecutive characters
C24_Contains(s, t) ==
  \E a \in 0..(Len(s) - Len(t)) : SubSeq(s, a + 1, a + Len(t)) = t

\* C24: the text written for every parenthetical Line holds the whole stored
\* text as a contiguous run: the repair adds parentheses and removes nothing.
C24_ParentheticalKeepsText ==
  \A k \in 1..Len(outIdx) :
    script.lines[k].type = "parenthetical" =>
      C24_Contains(Emitted(k), script.lines[k].text)

\* C18: every action Line with non-blank text is typed action again when the
\* exported text is decoded: the Line decoded from the output line it was
\* written to is an action Line.
C18_ActionSurvivesRoundTrip ==
  (pc = "parsed" /\ exported # <<>>) =>
    \A k \in 1..Len(prevLines) :
      (prevLines[k].type = "action" /\ ~BLANK(prevLines[k].text)) =>
        \E n \in 1..Len(lines) :
          srcIdx[n] = outIdx[k] /\ lines[n].type = "action"

-----------------------------------------------------------------------------
(* What the claims about parseFountain speak of, read off the input and the  *)
(* Lines produced so far                                                     *)

\* the trimmed input line the k-th Line was made from
RawOf(k) == trim(rawLines[srcIdx[k]])

\* the k-th Line's input line directly follows the input line of Line k-1
Directly(k) == k > 1 /\ srcIdx[k - 1] = srcIdx[k] - 1

\* the k-th Line's input line continues a dialogue block
InBlock(k) ==
  Directly(k) /\ lines[k - 1].type \in {"character", "parenthetical", "dialogue"}

\* a non-blank input line follows the k-th Line's input line
LaterNonBlank(k) ==
  \E j \in (srcIdx[k] + 1)..Len(rawLines) : ~BLANK(rawLines[j])

\* the text starts with one of the forcing prefixes
Forced(s) == s[1] \in {".", "@", ">", "!"}

\* all-caps cue text: letters, digits, spaces, optional trailing (extension)
CueText(s) == ~startsWith(s, "@") /\ CHARACTER(s)

C3_ParentheticalOnlyAfterCue ==
  \A k \in 1..Len(lines) :
    /\ lines[k].type = "parenthetical"
         => Directly(k) /\ lines[k - 1].type = "character"
    /\ (PARENTHETICAL(RawOf(k)) /\ Directly(k)
          /\ lines[k - 1].type \in {"dialogue", "parenthetical"})
         => lines[k].type = "dialogue"

\* cue, parenthetical, then a second parenthesised line typed dialogue
C3_Witness ==
  \E k \in 2..(Len(lines) - 1) :
    /\ lines[k - 1].type = "character"
    /\ lines[k].type = "parenthetical" /\ PARENTHETICAL(RawOf(k)) /\ Directly(k)
    /\ lines[k + 1].type = "dialogue" /\ PARENTHETICAL(RawOf(k + 1)) /\ Directly(k + 1)

\* C4: trimmed text starting with '.' but not '..' gives a scene Line holding the
\* rest, trimmed, in any dialogue state; text starting with '..' is not made a
\* forced scene heading.
C4_ForcedSceneNotEllipsis ==
  \A k \in 1..Len(lines) :
    LET s == RawOf(k)
    IN  /\ (startsWith(s, ".") /\ ~(Len(s) >= 2 /\ s[2] = "."))
           => lines[k].type = "scene" /\ lines[k].text = trim(Tail(s))
        /\ (Len(s) >= 2 /\ s[1] = "." /\ s[2] = ".")
           => lines[k].type # "scene"

\* the heading prefixes C5 names
C5_Prefixes ==
  { <<"I","N","T">>, <<"E","X","T">>, <<"E","S","T">>,
    <<"I","N","T","/","E","X","T">>, <<"I","/","E">> }

\* C5: a non-forced line beginning, in any case, with INT, EXT, EST, INT/EXT or
\* I/E and then '.' or white space is typed scene in any dialogue state, and its
\* text is the line without a trailing #...# scene number.
C5_NaturalSceneHeading ==
  \A k \in 1..Len(lines) :
    LET s == RawOf(k)
    IN  (/\ ~Forced(s)
         /\ \E p \in C5_Prefixes :
              /\ Len(s) > Len(p) /\ MatchAtCI(s, 1, p)
              /\ (s[Len(p) + 1] = "." \/ IsSpace(s[Len(p) + 1])))
        => /\ lines[k].type = "scene"
           /\ lines[k].text = trim(ReplaceSceneNumber(s))

\* the input lines of the title page: those before the first non-blank line that
\* is not of 'key: value' form
TitlePageLines ==
  {k \in 1..Len(rawLines) :
     \A j \in 1..k : BLANK(rawLines[j]) \/ TITLE_PAGE(rawLines[j])}

\* the title page lines whose key, lower-cased and trimmed, is one of keys
LinesWithKey(keys) ==
  {k \in TitlePageLines :
     ~BLANK(rawLines[k]) /\ trim(toLowerCase(TitleGroup1(rawLines[k]))) \in keys}

TitleKeyLines == LinesWithKey({<<"t","i","t","l","e">>})
AuthorKeyLines == LinesWithKey({<<"a","u","t","h","o","r">>, <<"a","u","t","h","o","r","s">>})

\* the trimmed value of the last line of a non-empty set of title page lines
LastValue(ks) ==
  trim(TitleGroup2(rawLines[CHOOSE k \in ks : \A j \in ks : j <= k]))

\* C6 (as amended): script.title is the trimmed value of the title page's (last)
\* Title key when that value is not empty, and 'Untitled' when the title page has
\* no Title key or its value is empty; script.author is the trimmed value of the
\* (last) Author/Authors key, and absent without one.
C6_TitleAndAuthor ==
  pc = "parsed" =>
    /\ script.title = IF TitleKeyLines # {} /\ LastValue(TitleKeyLines) # <<>>
                      THEN LastValue(TitleKeyLines) ELSE Untitled
    /\ script.author = IF AuthorKeyLines # {}
                       THEN <<LastValue(AuthorKeyLines)>> ELSE <<>>

\* C6 as first stated: script.title is the value of the Title key whenever the
\* title page has one.
C6_AsStated ==
  pc = "parsed" =>
    /\ TitleKeyLines # {} => script.title = LastValue(TitleKeyLines)
    /\ TitleKeyLines = {} => script.title = Untitled
    /\ script.author = IF AuthorKeyLines # {}
                       THEN <<LastValue(AuthorKeyLines)>> ELSE <<>>

\* a parse of a text whose title page gave both a title and an author
C6_Witness ==
  /\ pc = "parsed"
  /\ TitleKeyLines # {} /\ AuthorKeyLines # {}
  /\ script.title = LastValue(TitleKeyLines) /\ script.title # Untitled
  /\ script.author = <<LastValue(AuthorKeyLines)>>

\* what is left for parseFountain to do: it falls with every step
C7_Measure ==
  2 * (Len(rawLines) - i) + (IF inTitlePage THEN 1 ELSE 0)
    + (IF pc = "parsed" THEN 0 ELSE 1)

\* every Line has one of the six types, a line no rule matches is typed action,
\* and the function is at a place from which it can step (a loop pass reads a
\* line that exists) or has returned
C7_State ==
  /\ \A k \in 1..Len(lines) :
       /\ lines[k].type \in LineTypes
       /\ (~Forced(RawOf(k)) /\ ~SCENE_HEADING(RawOf(k)) /\ ~InBlock(k)
             /\ ~TRANSITION(RawOf(k)) /\ ~CHARACTER(RawOf(k)))
          => lines[k].type = "action"
  /\ pc \in {"title", "body"} => i < Len(rawLines)
  /\ pc \in {"title", "body", "return", "parsed"}
  /\ C7_Measure >= 0

\* C7: for every input parseFountain returns (every step lowers a measure that
\* never goes below zero, and a step is possible until it has returned) with
\* Lines of the six types only, a line matched by no rule being typed action.
C7_TotalAndDefaultsToAction ==
  [](C7_State) /\ [][C7_Measure' < C7_Measure]_vars

\* a returned parse holding an action Line that no rule matched
C7_Witness ==
  /\ pc = "parsed"
  /\ \E k \in 1..Len(lines) :
       /\ ~Forced(RawOf(k)) /\ ~SCENE_HEADING(RawOf(k)) /\ ~InBlock(k)
       /\ ~TRANSITION(RawOf(k)) /\ ~CHARACTER(RawOf(k))
       /\ lines[k].type = "action"

\* C19: every dialogue or parenthetical Line directly follows, with no blank
\* input line between, a character, parenthetical or dialogue Line; the first
\* Line and a Line whose input line follows a blank line are neither.
C19_DialogueBlockUnbroken ==
  \A k \in 1..Len(lines) :
    /\ lines[k].type \in {"dialogue", "parenthetical"} => InBlock(k)
    /\ (k = 1 \/ BLANK(rawLines[srcIdx[k] - 1]))
         => lines[k].type \notin {"dialogue", "parenthetical"}

\* a cue, a blank line, and a line that would have been its dialogue: typed action
C19_Witness ==
  /\ pc = "parsed"
  /\ \E k \in 2..Len(lines) :
       /\ lines[k - 1].type = "character"
       /\ srcIdx[k] = srcIdx[k - 1] + 2 /\ BLANK(rawLines[srcIdx[k] - 1])
       /\ ~Forced(RawOf(k)) /\ ~CHARACTER(RawOf(k)) /\ ~SCENE_HEADING(RawOf(k))
       /\ ~TRANSITION(RawOf(k))
       /\ lines[k].type = "action"

\* the text is, in any case, one of the transition phrases, alone or with a
\* closing ':' or '.'
C20_WholePhrase(s) ==
  \E p \in TransitionPhrases : \E e \in {<<>>, <<":">>, <<".">>} :
    toUpperCase(s) = p \o e

\* C20: outside a dialogue block a non-forced line that is not a scene heading
\* is typed transition only when its whole trimmed text is one of the
\* transition phrases; a sentence that ends with one after other words is not.
C20_TransitionIsWholePhrase ==
  \A k \in 1..Len(lines) :
    LET s == RawOf(k)
    IN  (~InBlock(k) /\ ~Forced(s) /\ ~SCENE_HEADING(s) /\ lines[k].type = "transition")
          => C20_WholePhrase(s)

\* input line j is a title page line with a recognised key whose field is in
\* the metadata
C26_StoredInMetadata(j) ==
  /\ j \in TitlePageLines
  /\ TITLE_PAGE(rawLines[j])
  /\ LET field == MetadataField(trim(toLowerCase(TitleGroup1(rawLines[j]))))
     IN  field # "" /\ field \in DOMAIN metadata

\* the Lines made from input line j
C26_LinesOf(j) == {k \in 1..Len(lines) : srcIdx[k] = j}

\* C26: every non-blank input line is either a title page line with a
\* recognised key, stored in the metadata, or the source of exactly one Line,
\* and the Lines are in input order; so a first line 'FADE IN:' or 'CUT TO:'
\* still gives a Line.
C26_NoContentDropped ==
  pc = "parsed" =>
    /\ \A j \in 1..Len(rawLines) :
         ~BLANK(rawLines[j]) =>
           \/ C26_StoredInMetadata(j) /\ C26_LinesOf(j) = {}
           \/ ~C26_StoredInMetadata(j) /\ Cardinality(C26_LinesOf(j)) = 1
    /\ \A k \in 2..Len(lines) : srcIdx[k - 1] < srcIdx[k]

\* the types of a Line sequence, in order
C25_Types(ls) == [k \in 1..Len(ls) |-> ls[k].type]

\* the second decoding has returned
C25_DecodedAgain == pc = "parsed" /\ exported # <<>>

\* C25: for every text T, encoding the Lines decoded from T and decoding the
\* result gives as many Lines as before, with the same types in the same order.
C25_TypesStable == C25_DecodedAgain => C25_Types(lines) = C25_Types(prevLines)

-----------------------------------------------------------------------------
(* Claims about validateFountain *)

\* every newline-separated line of the text is empty or white space only
AllLinesBlank == \A k \in 1..Len(rawLines) : AllSpace(rawLines[k], 1, Len(rawLines[k]))

\* C8: validateFountain returns valid = false with errors = ['Document is empty']
\* exactly when every line of the text is empty or white space only, and
\* otherwise valid = true with no errors; valid holds exactly when errors is empty.
C8_EmptyDocumentOnly ==
  pc = "validated" =>
    /\ validation = [valid |-> FALSE, errors |-> <<DocumentIsEmpty>>] <=> AllLinesBlank
    /\ ~AllLinesBlank => validation = [valid |-> TRUE, errors |-> <<>>]
    /\ validation.valid <=> validation.errors = <<>>

\* a rejected text that is not the empty string: it holds white space
C8_Witness ==
  /\ pc = "validated"
  /\ ~validation.valid
  /\ \E k \in 1..Len(rawLines) : rawLines[k] # <<>>

-----------------------------------------------------------------------------
(* Claims about calculatePageStats and the editor's page navigator *)

\* calculatePageStats has returned
StatsDone == pc \in {"nav", "navDone"}

\* C9: pageCount is 0, with estimatedMinutes, lineCount and wordCount 0, exactly
\* when the sequence is empty; for a non-empty one pageCount is at least 1,
\* lineCount is the number of Lines and estimatedMinutes is pageCount rounded to
\* the nearest integer (pageCount is in tenths: within half a page).
C9_PageStatsShape ==
  StatsDone =>
    /\ stats.pageCount = 0 <=> lines = <<>>
    /\ lines = <<>> =>
         stats.estimatedMinutes = 0 /\ stats.lineCount = 0 /\ stats.wordCount = 0
    /\ lines # <<>> =>
         /\ stats.pageCount >= 10
         /\ stats.lineCount = Len(lines)
         /\ 10 * stats.estimatedMinutes - stats.pageCount <= 5
         /\ stats.pageCount - 10 * stats.estimatedMinutes < 5

\* stats of a script of more than a page whose minutes round up
C9_Witness ==
  /\ StatsDone
  /\ lines # <<>>
  /\ stats.pageCount > 10
  /\ 10 * stats.estimatedMinutes > stats.pageCount

\* the weight C23 gives a Line, in tenths of a line
C23_Weight(line) ==
  LET base == CASE line.type = "scene" -> 20
                [] line.type = "action" -> 10
                [] line.type = "character" -> 15
                [] line.type = "parenthetical" -> 5
                [] line.type = "dialogue" -> 8
                [] line.type = "transition" -> 15
      perLine == IF line.type = "action" THEN 60 ELSE 35
      wraps == IF line.type \in {"action", "dialogue"}
               THEN Max(1, (Len(line.text) + perLine - 1) \div perLine)
               ELSE 1
  IN  base * wraps

\* W of C23 for the first n Lines, in tenths of a line
RECURSIVE C23_Total(_)
C23_Total(n) == IF n = 0 THEN 0 ELSE C23_Total(n - 1) + C23_Weight(lines[n])

\* C23: for a non-empty sequence pageCount is max(1, W / 55 rounded to one
\* decimal place): in tenths, the integer nearest to W / 55 with W in tenths,
\* and at least 10.
C23_PageCountFormula ==
  (StatsDone /\ lines # <<>>) =>
    LET w == C23_Total(Len(lines))
    IN  \E r \in 0..(w \div 55 + 1) :
          /\ 2 * (55 * r - w) <= 55
          /\ 2 * (w - 55 * r) <= 55
          /\ stats.pageCount = Max(10, r)

\* stats of more than a page in which a dialogue Line wraps
C23_Witness ==
  /\ StatsDone
  /\ stats.pageCount > 10
  /\ \E k \in 1..Len(lines) :
       lines[k].type = "dialogue" /\ Len(lines[k].text) > 35

\* C10: the editor's navigator and calculatePageStats weight every line type
\* alike, so one Line sequence gives the same weighted total in both.
C10_SameWeightedTotal ==
  pc = "navDone" => navWeighted = weightedLines

-----------------------------------------------------------------------------
(* Claims about the editor's page navigator *)

\* pageBreaks and sceneList are computed
Rendered == pc \in {"rendered", "scrolled"}

\* C11: the page getSceneList attaches to a scene Line is the page
\* getPageNumber gives for the same index: 1 plus the number of break points
\* at indices strictly before it.
C11_ScenePageIsLinePage ==
  Rendered =>
    \A e \in 1..Len(sceneList) :
      sceneList[e].page = getPageNumber(pageBreaks, sceneList[e].index)

\* C12: every page button 1..totalPages finds a line to jump to, and the last
\* line's page number is totalPages.
C12_NoDeadPageButton ==
  /\ pc = "scrolled" => scrollTarget # NoTarget
  /\ (Rendered /\ lines # <<>>) =>
       getPageNumber(pageBreaks, Len(lines) - 1) = totalPages

\* the weight of the Lines at 0-based indices a..b, in tenths of a line
RECURSIVE C22_Weight(_, _)
C22_Weight(a, b) ==
  IF a > b THEN 0 ELSE C22_Weight(a, b - 1) + EditorLineWeight(lines[b + 1])

\* the index after the break before the j-th one, 0 for the first
C22_Start(j) == IF j = 1 THEN 0 ELSE pageBreaks[j - 1] + 1

\* C22: the breaks are strictly increasing line indices; the weights from the
\* line after the previous break up to and including a break line sum to at
\* least 55 and without the break line to less than 55; past the last break
\* the total stays below 55.
C22_BreaksWhereTotalReachesPage ==
  Rendered =>
    /\ \A j \in 1..Len(pageBreaks) :
         /\ C22_Start(j) <= pageBreaks[j] /\ pageBreaks[j] < Len(lines)
         /\ C22_Weight(C22_Start(j), pageBreaks[j]) >= 550
         /\ C22_Weight(C22_Start(j), pageBreaks[j] - 1) < 550
    /\ C22_Weight(C22_Start(Len(pageBreaks) + 1), Len(lines) - 1) < 550

\* a break reached by the total of two Lines, neither of them a page long
C22_Witness ==
  /\ Rendered
  /\ pageBreaks = <<1>>
  /\ EditorLineWeight(lines[1]) < 550 /\ EditorLineWeight(lines[2]) < 550

-----------------------------------------------------------------------------
(* Claims about the import:fountain handler *)

\* the type and text of every Line of a sequence, in order
TypesAndTexts(ls) == [k \in 1..Len(ls) |-> <<ls[k].type, ls[k].text>>]

\* C13: the script import:fountain stores holds exactly the Lines parseFountain
\* returned for the imported text: same count, order, types and texts.
C13_ImportStoresParsedLines ==
  pc = "imported" =>
    TypesAndTexts(db.scripts[Len(db.scripts)].lines) = TypesAndTexts(lines)

-----------------------------------------------------------------------------
(* Claims about the editor *)

\* C14: at most one save timer is pending at any time, an edit cancels the
\* timers that were pending before it, and every edit is in time followed by an
\* onSave call carrying lines at least as recent as that edit.
C14_DebouncedAndComplete ==
  /\ [](Cardinality(timers) <= 1)
  /\ [][edits' # edits => timers' \cap timers = {}]_vars
  /\ \A n \in 1..MaxEdits : (edits >= n) ~> (saved.ver >= n)

\* the ids of a Line sequence
IdsOf(ls) == {ls[k].id : k \in 1..Len(ls)}

\* no two Lines of the sequence share an id
UniqueIds(ls) == \A a \in 1..Len(ls) : \A b \in 1..Len(ls) : a # b => ls[a].id # ls[b].id

\* where the k-th Line of the old sequence is after the operation op, 0 when the
\* operation removed it
PlaceAfter(op, k) ==
  CASE op.op = "enter" -> IF k <= op.idx THEN k ELSE k + 1
    [] op.op \in {"delete", "merge"} ->
         IF k < op.idx THEN k ELSE IF k = op.idx THEN 0 ELSE k - 1
    [] OTHER -> k

\* one of the operations C15 names
C15_Operations == {"enter", "delete", "merge", "tab", "change", "append"}

\* a step of one of the operations: every Line that survives it keeps its id, and
\* a Line it adds gets an id no Line had
C15_SurvivorsKeepIds ==
  (edits' = edits + 1 /\ lastOp'.op \in C15_Operations) =>
    /\ \A k \in 1..Len(lines) :
         PlaceAfter(lastOp', k) # 0 =>
           lines'[PlaceAfter(lastOp', k)].id = lines[k].id
    /\ Len(lines') = Cardinality({k \in 1..Len(lines) : PlaceAfter(lastOp', k) # 0})
                       + (IF lastOp'.op \in {"enter", "append"} THEN 1 ELSE 0)

\* C15: no two Lines share an id, in the output of parseFountain and after every
\* sequence of Enter, Backspace, Tab, text change and append-at-bottom; a Line
\* that survives an operation keeps its id.
C15_IdsUniqueAndStable ==
  [](UniqueIds(lines)) /\ [][C15_SurvivorsKeepIds]_vars

\* a document whose Line was split twice: three Lines, two of them new
C15_Witness ==
  /\ pc = "editing" /\ edits = 2
  /\ lastOp.op = "enter"
  /\ Len(lines) = Len(script.lines) + 2
  /\ Cardinality(IdsOf(lines) \ IdsOf(script.lines)) = 2

\* the type after t in the order scene, action, character, parenthetical,
\* dialogue, transition, scene
C16_After(t) ==
  CASE t = "scene" -> "action"
    [] t = "action" -> "character"
    [] t = "character" -> "parenthetical"
    [] t = "parenthetical" -> "dialogue"
    [] t = "dialogue" -> "transition"
    [] t = "transition" -> "scene"

\* six forward cycles from t
C16_SixTimes(t) ==
  cycleType(cycleType(cycleType(cycleType(cycleType(cycleType(t, 1), 1), 1), 1), 1), 1)

\* a Tab step changes the type of its Line to the next (Shift: the previous) in
\* the order and nothing else
C16_TabStep ==
  (edits' = edits + 1 /\ lastOp'.op = "tab") =>
    LET k == lastOp'.idx
    IN  /\ IF lastOp'.shift
           THEN C16_After(lines'[k].type) = lines[k].type
           ELSE lines'[k].type = C16_After(lines[k].type)
        /\ lines' = [lines EXCEPT ![k].type = lines'[k].type]

\* C16: Tab cycles forward through the fixed order, Shift+Tab is its inverse,
\* six forward cycles return to the start, and a cycle changes only the type of
\* its Line.
C16_TabCycles ==
  /\ [](\A t \in LineTypes :
          /\ cycleType(t, 1) = C16_After(t)
          /\ cycleType(cycleType(t, 1), -1) = t
          /\ cycleType(cycleType(t, -1), 1) = t
          /\ C16_SixTimes(t) = t)
  /\ [][C16_TabStep]_vars

\* Tab on a transition Line wrapped round to scene, and Shift+Tab took it back
C16_Witness ==
  /\ pc = "editing" /\ edits = 2
  /\ lastOp.op = "tab" /\ lastOp.shift
  /\ prevLines[lastOp.idx].type = "scene"
  /\ lines[lastOp.idx].type = "transition"
  /\ lines = script.lines

\* C27: when a completed save hands its lines back to the editor, the edits
\* made after that save's snapshot was taken are still in the editor's lines:
\* the lines are what they were before the hand-back.
C27_NoRevertToSavedSnapshot ==
  (pc = "editing" /\ lastOp.op = "reload" /\ edits > saved.ver) =>
    lines = prevLines

\* the last edit was Enter with a collapsed caret: the two Lines it left hold
\* the whole text of the Line it split
C29_AfterCollapsedEnter ==
  /\ pc = "editing"
  /\ lastOp.op = "enter"
  /\ prevLines[lastOp.idx].text =
       lines[lastOp.idx].text \o lines[lastOp.idx + 1].text

\* the step is Backspace at the start of the Line that Enter created
C29_BackspaceOnNewLine ==
  /\ edits' = edits + 1
  /\ lastOp'.op \in {"delete", "merge"}
  /\ lastOp'.idx = lastOp.idx + 1

\* C29: Enter with a collapsed caret followed at once by Backspace at the start
\* of the new Line gives back the Lines as they were before Enter: same count,
\* ids, types and texts.
C29_EnterBackspaceRestores ==
  [][(C29_AfterCollapsedEnter /\ C29_BackspaceOnNewLine) => lines' = prevLines]_vars

\* Enter inside a text and then Backspace merged the new Line back: the Line
\* Backspace removed had a text and an id the opened document does not hold
C29_Witness ==
  /\ pc = "editing" /\ edits = 2
  /\ lastOp.op = "merge"
  /\ prevLines[lastOp.idx].id \notin IdsOf(script.lines)
  /\ prevLines[lastOp.idx].text # <<>>
  /\ lines = script.lines

\* C30: an editor opened on at least one Line never holds zero Lines, whatever
\* the operations.
C30_NeverEmpty ==
  (pc \in {"editing", "unmounted"} /\ Len(script.lines) >= 1) => Len(lines) >= 1

\* after an edit one Line is left and it is empty: Backspace has nothing it
\* may remove
C30_Witness ==
  /\ pc = "editing" /\ edits >= 1
  /\ Len(script.lines) >= 1
  /\ Len(lines) = 1 /\ lines[1].text = <<>>

-----------------------------------------------------------------------------
(* Claims about the store *)

\* the ids of the stored characters of a script
C28_CharactersOf(scriptId) ==
  {c.id : c \in {x \in Elems(db.characters) : x.scriptId = scriptId}}

\* C28: after any sequence of addCharacter, deleteCharacter and the editor's
\* saves, the characterIds of every stored script are exactly the ids of the
\* stored characters whose scriptId is that script.
C28_CharacterIdsMatchCharacters ==
  \A k \in 1..Len(db.scripts) :
    Elems(db.scripts[k].characterIds) = C28_CharactersOf(db.scripts[k].id)

=============================================================================
